---- MODULE Spec2Model ----
(***************************************************************************)
(* Model of the English -> Assamese translation service (src/app.py,       *)
(* src/models.py): the two provider clients, the POST /translate handler   *)
(* with its fallback order and best-effort history write, and GET /history.*)
(*                                                                         *)
(* Text is a sequence of characters, so that str.strip() is computed.      *)
(* JSON / Python values are records tagged by the field t.                 *)
(***************************************************************************)
EXTENDS Integers, Sequences, FiniteSets, TLC

\* ------------------------------------------------------------------ bounds
\* longest request text and longest provider translatedText, in characters
MaxLen == 2
\* records the modelled requests may add to the store
MaxNewRecords == 1

\* ------------------------------------------------------- program constants
\* Translation.query ... .limit(50)
HistoryLimit == 50

Users == {"u1", "u2"}
Whitespace == {" "}
TextChars == {" ", "a"}
OutChars == {" ", "x"}

StrsUpTo(chars, n) == UNION {[1..k -> chars] : k \in 0..n}

\* ------------------------------------------------------ Python/JSON values
PyNone == [t |-> "null"]
JNum(n) == [t |-> "num", n |-> n]
JStr(s) == [t |-> "str", s |-> s]
\* a non-empty JSON array
JList == [t |-> "list"]
JDict(f) == [t |-> "dict", f |-> f]
\* a body response.json() cannot decode
Undecodable == [t |-> "invalid"]
EmptyF == [k \in {} |-> PyNone]

\* bool(v) as `if v` / `v if v else None` evaluates it
Truthy(v) ==
  CASE v.t = "null" -> FALSE
    [] v.t = "num" -> v.n # 0
    [] v.t = "str" -> v.s # <<>>
    [] v.t = "list" -> TRUE
    [] v.t = "dict" -> DOMAIN v.f # {}
    [] OTHER -> FALSE

\* dict.get(key, default)
DictGet(d, key, default) == IF key \in DOMAIN d.f THEN d.f[key] ELSE default

RECURSIVE LStrip(_)
LStrip(s) == IF s # <<>> /\ Head(s) \in Whitespace THEN LStrip(Tail(s)) ELSE s

RECURSIVE RStrip(_)
RStrip(s) ==
  IF s # <<>> /\ s[Len(s)] \in Whitespace THEN RStrip(SubSeq(s, 1, Len(s) - 1)) ELSE s

\* str.strip()
Strip(s) == RStrip(LStrip(s))

\* the outcome of evaluating Python code: a value, or a raised exception class
Ok(v) == [exc |-> "none", val |-> v]
Raise(cls) == [exc |-> cls]

\* x.strip() on a value that is truthy: only str has the method
StripValue(v) == IF v.t = "str" THEN Ok(JStr(Strip(v.s))) ELSE Raise("Exception")

\* ------------------------------------------------- provider HTTP exchanges
\* what requests.get / requests.post does: a response, or an exception
\* (requests.exceptions.Timeout, requests.exceptions.ConnectionError, other)
TransportFailures == {"Timeout", "ConnectionError", "Exception"}
HttpStatuses == {200, 500}

Response(status, body) == [kind |-> "response", status |-> status, body |-> body]
TransportError(cls) == [kind |-> cls]

TranslatedTexts ==
  {PyNone, JNum(0), JNum(5), JList} \cup {JStr(s) : s \in StrsUpTo(OutChars, MaxLen)}

\* objects with an optional translatedText member
TextDicts ==
  {JDict(EmptyF)} \cup {JDict("translatedText" :> v) : v \in TranslatedTexts}

ResponseStatuses == {JNum(200), JNum(403), JStr(<<"2", "0", "0">>)}
ResponseDatas == {PyNone, JList} \cup TextDicts

MyMemoryBodies ==
  {Undecodable, PyNone, JList, JDict(EmptyF)}
    \cup {JDict("responseStatus" :> rs) : rs \in ResponseStatuses}
    \cup {JDict("responseData" :> rd) : rd \in ResponseDatas}
    \cup {JDict("responseStatus" :> rs @@ "responseData" :> rd) :
            rs \in ResponseStatuses, rd \in ResponseDatas}

LibreBodies == {Undecodable, PyNone, JList} \cup TextDicts

MyMemoryExchanges ==
  {TransportError(c) : c \in TransportFailures}
    \cup {Response(st, b) : st \in HttpStatuses, b \in MyMemoryBodies}

LibreExchanges ==
  {TransportError(c) : c \in TransportFailures}
    \cup {Response(st, b) : st \in HttpStatuses, b \in LibreBodies}

\* ---------------------------------------------------------- provider clients
\* the try block of translate_with_mymemory
MyMemoryTry(h) ==
  IF h.kind # "response" THEN Raise(h.kind)
  ELSE IF h.status # 200 THEN Ok(PyNone)
  ELSE IF h.body.t = "invalid" THEN Raise("Exception")
  ELSE IF h.body.t # "dict" THEN Raise("Exception")
  ELSE IF DictGet(h.body, "responseStatus", PyNone) # JNum(200) THEN Ok(PyNone)
  ELSE LET rd == DictGet(h.body, "responseData", JDict(EmptyF)) IN
       IF rd.t # "dict" THEN Raise("Exception")
       ELSE LET translated_text == DictGet(rd, "translatedText", JStr(<<>>)) IN
            IF Truthy(translated_text) THEN StripValue(translated_text)
            ELSE Ok(PyNone)

\* translate_with_mymemory without its `except Exception`
translate_with_mymemory_NoCatch(h) == MyMemoryTry(h)

\* translate_with_mymemory: `except Exception` logs and returns None, so the
\* outcome is always a value
translate_with_mymemory(h) ==
  LET r == MyMemoryTry(h) IN IF r.exc = "none" THEN r ELSE Ok(PyNone)

\* the try block of translate_with_libretranslate
LibreTry(h) ==
  IF h.kind # "response" THEN Raise(h.kind)
  ELSE IF h.status # 200 THEN Ok(PyNone)
  ELSE IF h.body.t = "invalid" THEN Raise("Exception")
  ELSE IF h.body.t # "dict" THEN Raise("Exception")
  ELSE LET translated_text == DictGet(h.body, "translatedText", JStr(<<>>)) IN
       IF Truthy(translated_text) THEN StripValue(translated_text)
       ELSE Ok(PyNone)

\* translate_with_libretranslate returning translated_text without .strip()
translate_with_libretranslate_NoStrip(h) ==
  LET r == LibreTry(h) IN
  IF r.exc = "none" /\ r.val # PyNone
  THEN Ok(DictGet(h.body, "translatedText", JStr(<<>>)))
  ELSE Ok(PyNone)

\* translate_with_libretranslate: `except Exception` logs and returns None
translate_with_libretranslate(h) ==
  LET r == LibreTry(h) IN IF r.exc = "none" THEN r ELSE Ok(PyNone)

\* --------------------------------------------------------------- requests
\* what request.get_json() is given: Undecodable stands for a missing or
\* non-JSON body (get_json raises, or returns None in older Flask)
RequestTexts ==
  {PyNone, JNum(5), JList} \cup {JStr(s) : s \in StrsUpTo(TextChars, MaxLen)}

RequestBodies ==
  {Undecodable, PyNone, JList, JDict(EmptyF)}
    \cup {JDict("text" :> v) : v \in RequestTexts}

\* the parse without .strip()
ParseText_NoStrip(b) ==
  IF b.t = "invalid" THEN Raise("Exception")
  ELSE IF b.t # "dict" THEN Raise("Exception")
  ELSE LET v == DictGet(b, "text", JStr(<<>>)) IN
       IF v.t = "str" THEN Ok(v.s) ELSE Raise("Exception")

\* data = request.get_json(); text = data.get('text', '').strip()
ParseText(b) ==
  IF b.t = "invalid" THEN Raise("Exception")
  ELSE IF b.t # "dict" THEN Raise("Exception")
  ELSE LET v == DictGet(b, "text", JStr(<<>>)) IN
       IF v.t = "str" THEN Ok(Strip(v.s)) ELSE Raise("Exception")

\* jsonify({...}) of a successful translation, status 200
JsonSuccess(translated, original, service) ==
  [status |-> 200, success |-> TRUE, translated_text |-> translated,
   original_text |-> original, service |-> service]

\* jsonify({'success': False, 'error': ...}), status
JsonError(status, error) == [status |-> status, success |-> FALSE, error |-> error]

EmptyTextResponse == JsonError(400, "Please enter some text to translate")

UnavailableResponse ==
  JsonError(503, "Translation services are currently unavailable. Please try again later.")

\* what the server answers when an exception leaves a view: its own error
\* page, not a JSON body
ServerError == [status |-> 500, template |-> "none"]

\* the except clauses without the final `except Exception`
ExceptResponse_NoCatchAll(cls) ==
  CASE cls = "Timeout" ->
         [status |-> 504, success |-> FALSE,
          error |-> "Translation request timed out. Please try again."]
    [] cls = "ConnectionError" ->
         [status |-> 503, success |-> FALSE,
          error |-> "Unable to connect to translation service. Please check your internet connection."]
    [] OTHER -> ServerError

\* the except clauses of translate()
ExceptResponse(cls) ==
  CASE cls = "Timeout" ->
         JsonError(504, "Translation request timed out. Please try again.")
    [] cls = "ConnectionError" ->
         JsonError(503, "Unable to connect to translation service. Please check your internet connection.")
    [] OTHER -> JsonError(500, "An unexpected error occurred. Please try again.")

\* ----------------------------------------------------------------- session
\* what evaluating current_user.is_authenticated gives: an anonymous user,
\* a logged-in user, or an exception of the user loader
Anonymous == [kind |-> "anonymous"]
LoggedIn(u) == [kind |-> "user", id |-> u]
LookupFails(cls) == [kind |-> "raise", cls |-> cls]
NoSession == [kind |-> "none"]

SessionOutcomes ==
  {Anonymous} \cup {LoggedIn(u) : u \in Users}
    \cup {LookupFails(c) : c \in TransportFailures}

\* db.session.add + db.session.commit, or a query: done, or raising
StorageOutcomes == {"ok", "raise"}

\* ------------------------------------------------------------ record store
\* Translation(user_id=, original_text=, translated_text=, service_used=),
\* id assigned by the database, created_at defaulting to datetime.now
Translation(id, user, original, translated, service, at) ==
  [id |-> id, user_id |-> user, original_text |-> original,
   translated_text |-> translated, service_used |-> service, created_at |-> at]

\* the rows the database may already hold when the application starts
\* (db.create_all keeps an existing table): two rows of u2, the rest of u1,
\* two rows to each created_at, and room for a reading between two of them
Preloaded(n) ==
  [i \in 1..n |->
     Translation(i, IF i <= 2 THEN "u2" ELSE "u1", <<"a">>, <<"x">>,
                 IF i % 2 = 0 THEN "MyMemory" ELSE "LibreTranslate",
                 2 * ((i + 1) \div 2))]

\* the tables the requests of Spec start from
PreloadSizes == {0, 2}

\* the tables the requests of SpecHistory start from: one row of u1 more and
\* the listing is cut
HistoryPreloadSizes == {0, HistoryLimit + 2}

\* the created_at values stored in st
CreatedAts(st) == {st[i].created_at : i \in 1..Len(st)}

Oldest(st) == CHOOSE t \in CreatedAts(st) : \A u \in CreatedAts(st) : t <= u
Newest(st) == CHOOSE t \in CreatedAts(st) : \A u \in CreatedAts(st) : t >= u

\* created_at defaults to datetime.now at the insert: a reading of the naive
\* local wall clock, which can step back any distance (zone change, end of
\* daylight saving, clock correction). created_at values are only ever
\* compared with each other, so the readings are those that differ in their
\* order against the rows of st: every one from before the oldest stored row
\* to after the newest; on an empty table, one
ClockReadings(st) ==
  IF st = <<>> THEN {0} ELSE (Oldest(st) - 1)..(Newest(st) + 1)

\* ORDER BY created_at DESC: the sort key of row r among the rows of a table
\* whose ids are below idBound. Rows of equal created_at come in an order
\* the database chooses (tb): here by id, either way
TieOrders == {"low id first", "high id first"}

\* ORDER BY created_at without DESC
SortKey_Ascending(r, idBound, tb) ==
  (0 - r.created_at) * idBound + (IF tb = "low id first" THEN idBound - r.id ELSE r.id)

SortKey(r, idBound, tb) ==
  r.created_at * idBound + (IF tb = "low id first" THEN idBound - r.id ELSE r.id)

\* the sort keys of the rows of s, as a tuple
SortKeys(s, idBound, tb) == [i \in 1..Len(s) |-> SortKey(s[i], idBound, tb)] \o <<>>

\* the place of each row in descending key order: after the rows of a larger key
Places(key) ==
  [i \in 1..Len(key) |-> 1 + Cardinality({j \in 1..Len(key) : key[j] > key[i]})] \o <<>>

\* the rows of s, each at its place
Arrange(s, place) == [k \in 1..Len(s) |-> s[CHOOSE i \in 1..Len(s) : place[i] = k]]

OrderByCreatedDesc(s, idBound, tb) == Arrange(s, Places(SortKeys(s, idBound, tb)))

\* filter_by(user_id=...)
FilterByUser(s, u) == SelectSeq(s, LAMBDA r : r.user_id = u)

\* .limit(n)
Limit(s, n) == SubSeq(s, 1, IF Len(s) < n THEN Len(s) ELSE n)

\* Translation.query.filter_by(user_id=u).order_by(created_at.desc()).limit(50).all()
HistoryQuery(st, u, tb) ==
  LET mine == FilterByUser(st, u) IN
  Limit(OrderByCreatedDesc(mine, Len(st) + 1, tb), HistoryLimit)

\* `if translated_text:` never taken: the fallback is tried whatever MyMemory gave
MyMemoryGaveText_Never(ret) == FALSE

\* ------------------------------------------------------------ history write
\* the block without the try/except around add + commit
HistoryBlock_NoCatch(sess, outcome) ==
  IF sess.kind = "raise" THEN Raise(sess.cls)
  ELSE IF sess.kind = "anonymous" THEN Ok(FALSE)
  ELSE IF outcome = "ok" THEN Ok(TRUE)
  ELSE Raise("Exception")

\* lines 146-158 (and 173-185): `if current_user.is_authenticated:` and the
\* try/except around add + commit. The lookup is outside the try, so its
\* exception leaves the block; the write's exception is logged and dropped.
\* The value says whether a row was committed.
HistoryBlock(sess, outcome) ==
  IF sess.kind = "raise" THEN Raise(sess.cls)
  ELSE IF sess.kind = "anonymous" THEN Ok(FALSE)
  ELSE IF outcome = "ok" THEN Ok(TRUE)
  ELSE Ok(FALSE)

\* the row written with original_text and translated_text exchanged
SaveHistory_Swapped(st, sess, original, translated, service, at, outcome) ==
  IF sess.kind = "user" /\ outcome = "ok"
  THEN Append(st, Translation(Len(st) + 1, sess.id, translated, original, service, at))
  ELSE st

\* the row written before the session is looked up, for whoever the caller is
SaveHistory_BeforeLookup(st, sess, original, translated, service, at, outcome) ==
  IF outcome = "ok"
  THEN Append(st, Translation(Len(st) + 1,
                              IF sess.kind = "user" THEN sess.id ELSE "nobody",
                              original, translated, service, at))
  ELSE st

\* the table after the block: the row of lines 149-154 when it was committed
SaveHistory(st, sess, original, translated, service, at, outcome) ==
  LET r == HistoryBlock(sess, outcome) IN
  IF r.exc = "none" /\ r.val
  THEN Append(st, Translation(Len(st) + 1, sess.id, original, translated, service, at))
  ELSE st

\* lines 144-165 (and 171-192): the response of a request whose provider gave
\* text
SuccessResponse(sess, outcome, original, translated, service) ==
  LET r == HistoryBlock(sess, outcome) IN
  IF r.exc # "none" THEN ExceptResponse(r.exc)
  ELSE JsonSuccess(translated, original, service)

\* `if translated_text:` after translate_with_mymemory
MyMemoryGaveText(ret) == Truthy(ret)

\* `if translated_text:` after translate_with_libretranslate
LibreGaveText(ret) == Truthy(ret)

\* ------------------------------------------------------------------- state
VARIABLES
  pc,         \* where the request in progress stands
  route,      \* "translate", "history", or "none" between requests
  body,       \* the request body given to get_json()
  text,       \* the trimmed text, once it is known to be non-empty
  session,    \* the outcome of the session lookup of this request
  kindA,      \* how the MyMemory exchange ended: "response" or the exception
  kindB,      \* the same for LibreTranslate
  retA,       \* what translate_with_mymemory returned
  retB,       \* what translate_with_libretranslate returned
  callsA,     \* calls of translate_with_mymemory in this request
  callsB,     \* calls of translate_with_libretranslate in this request
  saved,      \* the history write of this request: "none", "ok", "failed"
  response,   \* the response returned
  responses,  \* responses returned by this request
  store,      \* the translations table, in insertion (id) order
  rowsBefore, \* the number of rows in the table when the request began
  kept,       \* no step of the request has changed or removed one of them
  added,      \* rows added since the start
  listed,     \* the rows GET /history rendered
  http        \* the exchange handed to a provider client on its own

vars ==
  <<pc, route, body, text, session, kindA, kindB, retA, retB, callsA, callsB,
    saved, response, responses, store, rowsBefore, kept, added, listed,
    http>>

NotCalled == [t |-> "notcalled"]
NoBody == [t |-> "nobody"]
NoResponse == [status |-> 0]
NoExchange == [kind |-> "none"]

\* the variables of one request, before it starts
RequestIdle ==
  /\ pc = "idle"
  /\ route = "none"
  /\ body = NoBody
  /\ text = <<>>
  /\ session = NoSession
  /\ kindA = "none"
  /\ kindB = "none"
  /\ retA = NotCalled
  /\ retB = NotCalled
  /\ callsA = 0
  /\ callsB = 0
  /\ saved = "none"
  /\ response = NoResponse
  /\ responses = 0
  /\ listed = <<>>

Init ==
  /\ RequestIdle
  /\ store \in {Preloaded(n) : n \in PreloadSizes}
  /\ rowsBefore = Len(store)
  /\ kept = TRUE
  /\ added = 0
  /\ http = NoExchange

\* return r from the handler
Return(r) ==
  /\ response' = r
  /\ responses' = responses + 1
  /\ pc' = "done"

\* ------------------------------------------------------- POST /translate
\* lines 130-138: parse the body, trim the text, refuse an empty one
TranslateBeginFrom(bodies) ==
  /\ pc = "idle"
  /\ added < MaxNewRecords
  /\ \E b \in bodies :
       LET r == ParseText(b) IN
       /\ route' = "translate"
       /\ body' = b
       /\ rowsBefore' = Len(store)
       /\ kept' = TRUE
       /\ IF r.exc # "none"
          THEN Return(ExceptResponse(r.exc)) /\ text' = text
          ELSE IF r.val = <<>>
          THEN Return(EmptyTextResponse) /\ text' = text
          ELSE /\ text' = r.val
               /\ pc' = "callA"
               /\ UNCHANGED <<response, responses>>
  /\ UNCHANGED <<session, kindA, kindB, retA, retB, callsA, callsB, saved,
                 store, added, listed, http>>

\* line 142: translated_text = translate_with_mymemory(text)
CallMyMemoryFrom(exchanges) ==
  /\ pc = "callA"
  /\ \E h \in exchanges :
       LET r == translate_with_mymemory(h) IN
       /\ kindA' = h.kind
       /\ IF r.exc = "none"
          THEN retA' = r.val /\ pc' = "afterA" /\ UNCHANGED <<response, responses>>
          ELSE retA' = retA /\ Return(ExceptResponse(r.exc))
  /\ callsA' = callsA + 1
  /\ UNCHANGED <<route, body, text, session, kindB, retB, callsB, saved, store,
                 rowsBefore, kept, added, listed, http>>

\* the history write and the 200 response, shared by lines 144-165 and 171-192
SaveAndRespond(translated, service) ==
  \E sess \in SessionOutcomes :
  \E outcome \in IF sess.kind = "user" THEN StorageOutcomes ELSE {"ok"} :
  \E at \in IF HistoryBlock(sess, outcome) = Ok(TRUE) THEN ClockReadings(store) ELSE {0} :
    /\ session' = sess
    /\ store' = SaveHistory(store, sess, text, translated, service, at, outcome)
    /\ saved' = IF sess.kind # "user" THEN "none"
                ELSE IF outcome = "ok" THEN "ok" ELSE "failed"
    /\ added' = added + (Len(store') - Len(store))
    /\ kept' = (kept /\ Len(store') >= Len(store)
                   /\ SubSeq(store', 1, Len(store)) = store)
    /\ Return(SuccessResponse(sess, outcome, text, translated, service))

\* lines 144-165: MyMemory gave text
RespondMyMemory ==
  /\ pc = "afterA"
  /\ MyMemoryGaveText(retA)
  /\ SaveAndRespond(retA.s, "MyMemory")
  /\ UNCHANGED <<route, body, text, kindA, kindB, retA, retB, callsA, callsB,
                 rowsBefore, listed, http>>

\* lines 167-169: MyMemory gave nothing, translate_with_libretranslate(text)
CallLibreTranslateFrom(exchanges) ==
  /\ pc = "afterA"
  /\ ~MyMemoryGaveText(retA)
  /\ \E h \in exchanges :
       LET r == translate_with_libretranslate(h) IN
       /\ kindB' = h.kind
       /\ IF r.exc = "none"
          THEN retB' = r.val /\ pc' = "afterB" /\ UNCHANGED <<response, responses>>
          ELSE retB' = retB /\ Return(ExceptResponse(r.exc))
  /\ callsB' = callsB + 1
  /\ UNCHANGED <<route, body, text, session, kindA, retA, callsA, saved, store,
                 rowsBefore, kept, added, listed, http>>

\* lines 171-192: LibreTranslate gave text
RespondLibreTranslate ==
  /\ pc = "afterB"
  /\ LibreGaveText(retB)
  /\ SaveAndRespond(retB.s, "LibreTranslate")
  /\ UNCHANGED <<route, body, text, kindA, kindB, retA, retB, callsA, callsB,
                 rowsBefore, listed, http>>

\* lines 194-198: both providers gave nothing
RespondUnavailable ==
  /\ pc = "afterB"
  /\ ~LibreGaveText(retB)
  /\ Return(UnavailableResponse)
  /\ UNCHANGED <<route, body, text, session, kindA, kindB, retA, retB, callsA,
                 callsB, saved, store, rowsBefore, kept, added, listed,
                 http>>

\* ----------------------------------------------------------- GET /history
RedirectToLogin == [status |-> 302, location |-> "replit_auth.login"]
HistoryPage == [status |-> 200, template |-> "history.html"]

\* history(): no try block, so a failing lookup or query leaves the view
History ==
  /\ pc = "idle"
  /\ \E sess \in SessionOutcomes :
     \E outcome \in IF sess.kind = "user" THEN StorageOutcomes ELSE {"ok"} :
     \E tb \in IF sess.kind = "user" /\ outcome = "ok" THEN TieOrders ELSE {"low id first"} :
       /\ session' = sess
       /\ IF sess.kind = "raise" \/ (sess.kind = "user" /\ outcome = "raise")
          THEN listed' = <<>> /\ Return(ServerError)
          ELSE IF sess.kind = "anonymous"
          THEN listed' = <<>> /\ Return(RedirectToLogin)
          ELSE listed' = HistoryQuery(store, sess.id, tb) /\ Return(HistoryPage)
  /\ route' = "history"
  /\ rowsBefore' = Len(store)
  /\ kept' = TRUE
  /\ UNCHANGED <<body, text, kindA, kindB, retA, retB, callsA, callsB, saved,
                 store, added, http>>

\* the request is over; the next one starts from a clean request context
Finish ==
  /\ pc = "done"
  /\ pc' = "idle"
  /\ route' = "none"
  /\ body' = NoBody
  /\ text' = <<>>
  /\ session' = NoSession
  /\ kindA' = "none"
  /\ kindB' = "none"
  /\ retA' = NotCalled
  /\ retB' = NotCalled
  /\ callsA' = 0
  /\ callsB' = 0
  /\ saved' = "none"
  /\ response' = NoResponse
  /\ responses' = 0
  /\ listed' = <<>>
  /\ rowsBefore' = Len(store)
  /\ kept' = TRUE
  /\ UNCHANGED <<store, added, http>>

\* the requests of Spec: every body and every provider exchange
TranslateBegin == TranslateBeginFrom(RequestBodies)
CallMyMemory == CallMyMemoryFrom(MyMemoryExchanges)
CallLibreTranslate == CallLibreTranslateFrom(LibreExchanges)

Next ==
  \/ TranslateBegin
  \/ CallMyMemory
  \/ RespondMyMemory
  \/ CallLibreTranslate
  \/ RespondLibreTranslate
  \/ RespondUnavailable
  \/ History
  \/ Finish

Spec == Init /\ [][Next]_vars

\* ------------------------------------------------ the history of a long table
\* the requests of SpecHistory: a text or a blank, and each provider giving
\* text or failing, on a table long enough for the listing to be cut
PlainBodies == {JDict("text" :> JStr(<<"a">>)), JDict("text" :> JStr(<<" ">>))}

PlainMyMemoryExchanges ==
  {TransportError("Timeout"),
   Response(200, JDict("responseStatus" :> JNum(200)
                         @@ "responseData" :> JDict("translatedText" :> JStr(<<"x">>))))}

PlainLibreExchanges ==
  {TransportError("ConnectionError"),
   Response(200, JDict("translatedText" :> JStr(<<"x">>)))}

HistoryInit ==
  /\ RequestIdle
  /\ store \in {Preloaded(n) : n \in HistoryPreloadSizes}
  /\ rowsBefore = Len(store)
  /\ kept = TRUE
  /\ added = 0
  /\ http = NoExchange

PlainTranslateBegin == TranslateBeginFrom(PlainBodies)
PlainCallMyMemory == CallMyMemoryFrom(PlainMyMemoryExchanges)
PlainCallLibreTranslate == CallLibreTranslateFrom(PlainLibreExchanges)

HistoryNext ==
  \/ PlainTranslateBegin
  \/ PlainCallMyMemory
  \/ RespondMyMemory
  \/ PlainCallLibreTranslate
  \/ RespondLibreTranslate
  \/ RespondUnavailable
  \/ History
  \/ Finish

SpecHistory == HistoryInit /\ [][HistoryNext]_vars

\* ------------------------------------------- the provider clients on their own
\* every exchange a provider client can be handed
ClientInit ==
  /\ RequestIdle
  /\ store = <<>>
  /\ rowsBefore = 0
  /\ kept = TRUE
  /\ added = 0
  /\ http \in MyMemoryExchanges \cup LibreExchanges

ClientMyMemory ==
  /\ pc = "idle"
  /\ http \in MyMemoryExchanges
  /\ LET r == translate_with_mymemory(http) IN
       IF r.exc = "none"
       THEN retA' = r.val /\ pc' = "returned"
       ELSE retA' = retA /\ pc' = "raised"
  /\ kindA' = http.kind
  /\ callsA' = callsA + 1
  /\ UNCHANGED <<route, body, text, session, kindB, retB, callsB, saved, response,
                 responses, store, rowsBefore, kept, added, listed, http>>

ClientLibreTranslate ==
  /\ pc = "idle"
  /\ http \in LibreExchanges
  /\ LET r == translate_with_libretranslate(http) IN
       IF r.exc = "none"
       THEN retB' = r.val /\ pc' = "returned"
       ELSE retB' = retB /\ pc' = "raised"
  /\ kindB' = http.kind
  /\ callsB' = callsB + 1
  /\ UNCHANGED <<route, body, text, session, kindA, retA, callsA, saved, response,
                 responses, store, rowsBefore, kept, added, listed, http>>

ClientNext == ClientMyMemory \/ ClientLibreTranslate

SpecClient == ClientInit /\ [][ClientNext]_vars

\* ================================================================ claims
\* a provider client succeeded: it returned text that is not empty
Succeeded(ret) == ret.t = "str" /\ ret.s # <<>>

TranslateDone == pc = "done" /\ route = "translate"
HistoryDone == pc = "done" /\ route = "history"

\* the table is as it was when the request began
TableAsBefore == kept /\ Len(store) = rowsBefore

\* s has no whitespace at either end
Trimmed(s) == s = <<>> \/ (s[1] \notin Whitespace /\ s[Len(s)] \notin Whitespace)

\* the text and the service the request obtained from the providers
ObtainedText == IF callsB = 0 THEN retA.s ELSE retB.s
ObtainedService == IF callsB = 0 THEN "MyMemory" ELSE "LibreTranslate"

\* C1 as stated: whenever MyMemory succeeds for a non-empty trimmed text,
\* LibreTranslate is never invoked during the request and the response is 200
\* with service "MyMemory".
C1_AsStated ==
  (route = "translate" /\ text # <<>> /\ Succeeded(retA)) =>
    /\ callsB = 0
    /\ pc = "done" => (response.status = 200 /\ response.service = "MyMemory")

\* C1 amended: whenever MyMemory succeeds for a non-empty trimmed text,
\* LibreTranslate is never invoked during the request; the response is 200
\* with service "MyMemory" and MyMemory's text when the session lookup does
\* not raise, and the except clauses' error response when it raises.
C1_MyMemoryFirst ==
  (route = "translate" /\ text # <<>> /\ Succeeded(retA)) =>
    /\ callsB = 0
    /\ retB = NotCalled
    /\ pc = "done" =>
         IF session.kind = "raise"
         THEN /\ response.status \in {500, 503, 504}
              /\ response.success = FALSE
         ELSE /\ response.status = 200
              /\ response.success = TRUE
              /\ response.service = "MyMemory"
              /\ response.translated_text = retA.s

C1_Witness ==
  /\ TranslateDone
  /\ Succeeded(retA)
  /\ session.kind = "user"
  /\ response.status = 200
  /\ response.service = "MyMemory"
  /\ callsB = 0

\* C2 as stated: when MyMemory fails and LibreTranslate succeeds, the response
\* is 200 with success, service "LibreTranslate" and LibreTranslate's trimmed
\* text.
C2_AsStated ==
  (TranslateDone /\ callsA = 1 /\ ~Succeeded(retA) /\ Succeeded(retB)) =>
    /\ response.status = 200
    /\ response.success = TRUE
    /\ response.service = "LibreTranslate"
    /\ response.translated_text = retB.s

\* C2 amended: when MyMemory fails and LibreTranslate succeeds, each provider
\* was called once, and the response is 200 with success, service
\* "LibreTranslate" and LibreTranslate's trimmed text when the session lookup
\* does not raise, and the except clauses' error response when it raises.
C2_FallbackToLibre ==
  (TranslateDone /\ callsA = 1 /\ ~Succeeded(retA) /\ Succeeded(retB)) =>
    /\ callsB = 1
    /\ Trimmed(retB.s)
    /\ IF session.kind = "raise"
       THEN /\ response.status \in {500, 503, 504}
            /\ response.success = FALSE
       ELSE /\ response.status = 200
            /\ response.success = TRUE
            /\ response.service = "LibreTranslate"
            /\ response.translated_text = retB.s

C2_Witness ==
  /\ TranslateDone
  /\ kindA = "Timeout"
  /\ retA = PyNone
  /\ Succeeded(retB)
  /\ session.kind = "anonymous"
  /\ response.status = 200
  /\ response.service = "LibreTranslate"

\* C3: when both providers fail, however each failed, each was tried once and
\* the response is the 503 "services unavailable" error with success false; a
\* provider's timeout or connection failure never becomes 504 or 500.
C3_BothFail503 ==
  (TranslateDone /\ callsA >= 1 /\ ~Succeeded(retA) /\ ~Succeeded(retB)) =>
    /\ callsA = 1
    /\ callsB = 1
    /\ response.status = 503
    /\ response.success = FALSE
    /\ response = UnavailableResponse

C3_Witness ==
  /\ TranslateDone
  /\ kindA = "Timeout"
  /\ kindB = "ConnectionError"
  /\ response.status = 503
  /\ response.success = FALSE

\* the text member of a request body, '' when it is absent
BodyText(b) == IF b.t = "dict" THEN DictGet(b, "text", JStr(<<>>)) ELSE PyNone

\* the request's text is a string of whitespace only (or empty, or absent)
BlankText(b) ==
  /\ BodyText(b).t = "str"
  /\ \A i \in 1..Len(BodyText(b).s) : BodyText(b).s[i] \in Whitespace

\* C4: a request whose text is empty or whitespace-only gets 400 "Please enter
\* some text to translate", before any session lookup and without a provider
\* call.
C4_EmptyText400 ==
  (route = "translate" /\ BlankText(body)) =>
    /\ pc = "done"
    /\ response = JsonError(400, "Please enter some text to translate")
    /\ callsA = 0
    /\ callsB = 0
    /\ session = NoSession
    /\ TableAsBefore

C4_Witness ==
  /\ TranslateDone
  /\ BodyText(body) = JStr(<<" ", " ">>)
  /\ response.status = 400
  /\ callsA = 0
  /\ callsB = 0

\* the request added exactly the row of its response, owned by the caller
AddedOwnRow ==
  /\ Len(store) = rowsBefore + 1
  /\ kept
  /\ store[Len(store)].id = Len(store)
  /\ store[Len(store)].user_id = session.id
  /\ store[Len(store)].original_text = response.original_text
  /\ store[Len(store)].translated_text = response.translated_text
  /\ store[Len(store)].service_used = response.service

\* C5 as stated: a successful translation adds exactly one row, matching the
\* response, when the caller is authenticated, and none when the caller is not.
C5_AsStated ==
  (TranslateDone /\ response.status = 200) =>
    IF session.kind = "user" THEN AddedOwnRow ELSE TableAsBefore

\* C5 amended: a successful translation adds exactly one row, matching the
\* response, when the caller is authenticated and the history write does not
\* raise; it adds none when the caller is not authenticated or the write raises.
C5_OneRowWhenWritten ==
  (TranslateDone /\ response.status = 200) =>
    IF session.kind = "user" /\ saved = "ok" THEN AddedOwnRow ELSE TableAsBefore

C5_Witness ==
  /\ TranslateDone
  /\ response.status = 200
  /\ session = LoggedIn("u1")
  /\ saved = "ok"
  /\ Len(store) = rowsBefore + 1
  /\ store[Len(store)].translated_text = <<"x">>

\* C6: when the history write raises in a request whose provider gave text,
\* the response is the 200 success the request gives when the write succeeds:
\* the provider's text, the trimmed request text and the provider's name.
C6_WriteFailureIgnored ==
  (TranslateDone /\ saved = "failed") =>
    /\ response.status = 200
    /\ response.success = TRUE
    /\ response.translated_text = ObtainedText
    /\ response.original_text = text
    /\ response.service = ObtainedService
    /\ TableAsBefore

C6_Witness ==
  /\ TranslateDone
  /\ saved = "failed"
  /\ session.kind = "user"
  /\ response.status = 200
  /\ response.service = "LibreTranslate"

\* the steps of translate() after the body is parsed
TranslateStep ==
  \/ CallMyMemory
  \/ RespondMyMemory
  \/ CallLibreTranslate
  \/ RespondLibreTranslate
  \/ RespondUnavailable

\* C7: a POST /translate request, whatever its body and whatever the
\* providers, the storage and the session lookup do, always has a next step
\* until it has returned, and returns exactly one JSON response with a success
\* member and a status among 200, 400, 503, 504, 500; no exception leaves the
\* handler.
C7_AlwaysJsonResponse ==
  route = "translate" =>
    /\ pc # "done" => (responses = 0 /\ ENABLED TranslateStep)
    /\ pc = "done" =>
         /\ responses = 1
         /\ response # ServerError
         /\ response.status \in {200, 400, 503, 504, 500}
         /\ "success" \in DOMAIN response
         /\ response.success = (response.status = 200)

C7_Witness ==
  /\ TranslateDone
  /\ body = Undecodable
  /\ responses = 1
  /\ response.status = 500
  /\ response.success = FALSE

\* what the client that was called returned
ClientReturn == IF callsA = 1 THEN retA ELSE retB

\* the translated-text member of the body the client was handed, None when
\* the body has none
ClientField ==
  IF http.kind # "response" \/ http.body.t # "dict" THEN PyNone
  ELSE IF callsA = 1
  THEN IF "responseData" \in DOMAIN http.body.f /\ http.body.f.responseData.t = "dict"
       THEN DictGet(http.body.f.responseData, "translatedText", PyNone)
       ELSE PyNone
  ELSE DictGet(http.body, "translatedText", PyNone)

\* the conditions for a client to return text: a success status, a decoded
\* body, a translated-text member that is a string and not blank
ClientMayReturnText ==
  /\ http.kind = "response"
  /\ http.status = 200
  /\ http.body.t = "dict"
  /\ ClientField.t = "str"
  /\ \E i \in 1..Len(ClientField.s) : ClientField.s[i] \notin Whitespace

\* C8 as stated: a provider client never raises, and returns either None or
\* trimmed text that is not empty; it returns text only for a success status,
\* a decoded body and a non-blank translated-text member, and returns None in
\* every other case, a whitespace-only member included.
C8_AsStated ==
  /\ pc # "raised"
  /\ pc = "returned" =>
       /\ ClientReturn = PyNone \/ Succeeded(ClientReturn)
       /\ Succeeded(ClientReturn) => (Trimmed(ClientReturn.s) /\ ClientMayReturnText)
       /\ ~ClientMayReturnText => ClientReturn = PyNone

\* newest first: no row is newer than the one before it
Descending(rows) ==
  \A k \in 1..(Len(rows) - 1) : rows[k].created_at >= rows[k + 1].created_at

RowsOf(rows) == {rows[k] : k \in 1..Len(rows)}
OwnedBy(u) == {r \in RowsOf(store) : r.user_id = u}

\* C9: after any sequence of requests, GET /history redirects an
\* unauthenticated caller to the login and lists nothing; for an authenticated
\* caller it lists only rows of the table owned by the caller, each once, at
\* most 50 of them (all of them when there are fewer), in descending
\* created_at order, and no unlisted row of the caller has a later created_at
\* than a listed one. A row's created_at is the wall clock's reading at its
\* insert, whatever order the rows were inserted in.
C9_HistoryListing ==
  HistoryDone =>
    /\ session.kind = "anonymous" => (response = RedirectToLogin /\ listed = <<>>)
    /\ session.kind # "user" => listed = <<>>
    /\ session.kind = "user" =>
         /\ RowsOf(listed) \subseteq OwnedBy(session.id)
         /\ Cardinality(RowsOf(listed)) = Len(listed)
         /\ Len(listed) <= HistoryLimit
         /\ Descending(listed)
         /\ \A r \in OwnedBy(session.id) \ RowsOf(listed) :
              \A k \in 1..Len(listed) : listed[k].created_at >= r.created_at
         /\ response = HistoryPage =>
              Len(listed) = IF Cardinality(OwnedBy(session.id)) < HistoryLimit
                            THEN Cardinality(OwnedBy(session.id))
                            ELSE HistoryLimit

\* the clock stepped back: the row the caller's last request stored is older
\* than the fifty listed, and is left out
C9_Witness ==
  /\ HistoryDone
  /\ session = LoggedIn("u1")
  /\ response = HistoryPage
  /\ added = 1
  /\ store[Len(store)].user_id = "u1"
  /\ OwnedBy("u2") # {}
  /\ Len(listed) = HistoryLimit
  /\ store[Len(store)] \notin RowsOf(listed)
  /\ \A k \in 1..Len(listed) : listed[k].created_at > store[Len(store)].created_at

\* a step leaves the table alone, or appends one row to it while returning
\* the 200 success of POST /translate
StoreStep ==
  \/ store' = store
  \/ /\ route = "translate"
     /\ Len(store') = Len(store) + 1
     /\ SubSeq(store', 1, Len(store)) = store
     /\ pc' = "done"
     /\ response'.status = 200
     /\ response'.success = TRUE

\* C10: a POST /translate request that ends with 400, 503, 504 or 500 leaves
\* the table as it was when the request began, and no step of any request
\* changes or removes a row: a step may only append one row, and only while
\* returning a successful translation.
C10_NoRowForFailure ==
  /\ []((TranslateDone /\ response.status \in {400, 503, 504, 500}) => TableAsBefore)
  /\ [][StoreStep]_vars

C10_Witness ==
  /\ TranslateDone
  /\ Succeeded(retA)
  /\ session.kind = "raise"
  /\ response.status = 500
  /\ TableAsBefore
  /\ Len(store) > 0

====
